---- MODULE Spec2Model ----
(***************************************************************************)
(* PomodoroTimer (timer.js) of focusfi: the focus / short / long session   *)
(* countdown, its control methods, the interval the browser schedules for  *)
(* it and the callbacks it fires.                                          *)
(*                                                                         *)
(* The timer object and the browser's interval table are one record ("t"   *)
(* below) and every method is an operator from that record to the record   *)
(* after the call, so that a method calling another one (toggle -> pause,  *)
(* setDuration -> reset -> pause, _handleEnd -> setMode -> pause) is the   *)
(* composition the source writes.                                          *)
(*                                                                         *)
(* Around the timer, the page (app.js): the TaskList (tasks.js), the music *)
(* sources (player.js, the Spotify embed), the alarm and the countdown are *)
(* records of their own, and a handler of the page is an operator on the   *)
(* record "w" of all of them.                                              *)
(***************************************************************************)
EXTENDS Integers, Sequences, FiniteSets, TLC

\* ---------------------------------------------------------------- bounds
\* Natural focus expiries explored in one run.
MaxSessions == 5
\* Interval handles the browser can hand out.
MaxIntervals == 2

\* ------------------------------------------------------------- JS numbers
\* parseInt of an empty or non-numeric field is NaN; it is kept as a value
\* apart from every integer, and the arithmetic below treats it as JS does.
NaN == -999999

IsNaN(x) == x = NaN

\* Math.min(a, b): NaN if either argument is NaN.
MathMin(a, b) == IF IsNaN(a) \/ IsNaN(b) THEN NaN ELSE IF a < b THEN a ELSE b

\* Math.max(a, b): NaN if either argument is NaN.
MathMax(a, b) == IF IsNaN(a) \/ IsNaN(b) THEN NaN ELSE IF a > b THEN a ELSE b

\* a * b
Mul(a, b) == IF IsNaN(a) \/ IsNaN(b) THEN NaN ELSE a * b

\* a - b
Sub(a, b) == IF IsNaN(a) \/ IsNaN(b) THEN NaN ELSE a - b

\* a <= b: false whenever NaN is involved.
Leq(a, b) == IF IsNaN(a) \/ IsNaN(b) THEN FALSE ELSE a <= b

\* ------------------------------------------------------------------ state
Modes == {"focus", "short", "long"}

\* Handles setInterval can return.
Handles == 1..MaxIntervals

\* this._interval = null
null == 0

VARIABLES
  durations,      \* this.durations: mode -> seconds
  mode,           \* this.mode
  timeLeft,       \* this.timeLeft
  isRunning,      \* this.isRunning
  focusSessions,  \* this.focusSessions
  interval,       \* this._interval: a handle, or null
  scheduled,      \* the browser's live intervals (handles not yet cleared)
  calls,          \* callbacks fired by the most recent operation, in order
  op,             \* the most recent operation and its arguments
  focusExpiries,  \* history: natural focus expiries since creation
  onEndSaw,       \* what onEnd found when the most recent operation called it
  tasks,          \* the TaskList, localStorage under its key, Date.now()
  music,          \* the music source, the YouTube player, the Spotify embed
  alarm,          \* the alarm overlay, its audio context and its interval
  cd,             \* the countdown timer and its two input fields
  label           \* the text of #btn-timer-start

\* What lives outside the timer.
appVars == <<tasks, music, alarm, cd, label>>

\* The page around the timer and the task list.
pageVars == <<music, alarm, cd, label>>

vars == <<durations, mode, timeLeft, isRunning, focusSessions, interval,
          scheduled, calls, op, focusExpiries, onEndSaw, tasks, music,
          alarm, cd, label>>

\* The timer, its interval and its observers' log.
timerVars == <<durations, mode, timeLeft, isRunning, focusSessions, interval,
               scheduled, calls, focusExpiries, onEndSaw>>

\* The fields of the timer object, without the observers' bookkeeping.
fields == <<durations, mode, timeLeft, isRunning, focusSessions, interval,
            scheduled>>

\* ---------------------------------------------------------------- callbacks
OnTick(secs, m) == [cb |-> "onTick", secs |-> secs, mode |-> m]

OnEnd(m, total) == [cb |-> "onEnd", mode |-> m, total |-> total]

OnModeChange(m) == [cb |-> "onModeChange", mode |-> m]

\* The timer as a callback finds it when it is invoked.
Seen(t) == [isRunning |-> t.isRunning, scheduled |-> t.scheduled,
            timeLeft |-> t.timeLeft, mode |-> t.mode]

\* ------------------------------------------------------------------ object
\* The state after `new PomodoroTimer(opts)`.
constructor ==
  [durations     |-> [m \in Modes |->
                        CASE m = "focus" -> 25 * 60
                          [] m = "short" -> 5 * 60
                          [] m = "long"  -> 15 * 60],
   mode          |-> "focus",
   timeLeft      |-> 25 * 60,
   isRunning     |-> FALSE,
   focusSessions |-> 0,
   interval      |-> null,
   scheduled     |-> {},
   calls         |-> <<>>,
   atOnEnd       |-> <<>>]

\* The timer and the interval table as one record.
This ==
  [durations     |-> durations,
   mode          |-> mode,
   timeLeft      |-> timeLeft,
   isRunning     |-> isRunning,
   focusSessions |-> focusSessions,
   interval      |-> interval,
   scheduled     |-> scheduled,
   calls         |-> <<>>,
   atOnEnd       |-> <<>>]

\* setInterval(...): a handle that is not live.  Handles are never held
\* after they are cleared, so which free handle is returned is immaterial.
setInterval(t) == CHOOSE h \in Handles \ t.scheduled :
                    \A g \in Handles \ t.scheduled : h <= g

\* clearInterval(h): clearing null or a dead handle does nothing.
clearInterval(t, h) == [t EXCEPT !.scheduled = @ \ {h}]

\* --------------------------------------------------------------- control
\* start() without the isRunning guard.
start_unguarded(t) ==
  LET h == setInterval(t)
  IN  [t EXCEPT !.isRunning = TRUE,
                !.interval  = h,
                !.scheduled = @ \cup {h}]

start(t) ==
  IF t.isRunning THEN t
  ELSE LET h == setInterval(t)
       IN  [t EXCEPT !.isRunning = TRUE,
                     !.interval  = h,
                     !.scheduled = @ \cup {h}]

\* pause() that also rewinds the session to its full duration.
pause_rewinds(t) ==
  [clearInterval([t EXCEPT !.isRunning = FALSE,
                           !.timeLeft  = t.durations[t.mode]], t.interval)
     EXCEPT !.interval = null]

pause(t) ==
  [clearInterval([t EXCEPT !.isRunning = FALSE], t.interval)
     EXCEPT !.interval = null]

\* toggle() with its two branches exchanged.
toggle_swapped(t) == IF t.isRunning THEN start(t) ELSE pause(t)

\* The record after toggle(); its return value is the isRunning field.
toggle(t) == IF t.isRunning THEN pause(t) ELSE start(t)

\* reset() that also forgets the completed sessions.
reset_clearsSessions(t) ==
  LET p == pause(t)
      r == [p EXCEPT !.timeLeft = p.durations[p.mode], !.focusSessions = 0]
  IN  [r EXCEPT !.calls = Append(@, OnTick(r.timeLeft, r.mode))]

\* reset() that leaves the countdown running.
reset_keepsRunning(t) ==
  LET r == [t EXCEPT !.timeLeft = t.durations[t.mode]]
  IN  [r EXCEPT !.calls = Append(@, OnTick(r.timeLeft, r.mode))]

reset(t) ==
  LET p == pause(t)
      r == [p EXCEPT !.timeLeft = p.durations[p.mode]]
  IN  [r EXCEPT !.calls = Append(@, OnTick(r.timeLeft, r.mode))]

\* setMode() that notifies the display before the mode observers.
setMode_tickFirst(t, m) ==
  LET a == [t EXCEPT !.mode = m, !.timeLeft = t.durations[m]]
      p == pause(a)
  IN  [p EXCEPT !.calls = @ \o <<OnTick(p.timeLeft, m), OnModeChange(m)>>]

\* setMode() that reads the duration before it switches the mode.
setMode_oldDuration(t, m) ==
  LET a == [t EXCEPT !.timeLeft = t.durations[t.mode], !.mode = m]
      p == pause(a)
  IN  [p EXCEPT !.calls = @ \o <<OnModeChange(m), OnTick(p.timeLeft, m)>>]

setMode(t, m) ==
  LET a == [t EXCEPT !.mode = m, !.timeLeft = t.durations[m]]
      p == pause(a)
  IN  [p EXCEPT !.calls = @ \o <<OnModeChange(m), OnTick(p.timeLeft, m)>>]

\* setDuration() without the upper limit of 99 minutes.
setDuration_noUpperClamp(t, m, minutes) ==
  LET secs == Mul(MathMax(1, minutes), 60)
      d    == [t EXCEPT !.durations[m] = secs]
  IN  IF d.mode = m THEN reset(d) ELSE d

\* setDuration() that resets before it stores the new duration.
setDuration_resetFirst(t, m, minutes) ==
  LET secs == Mul(MathMax(1, MathMin(99, minutes)), 60)
      r    == IF t.mode = m THEN reset(t) ELSE t
  IN  [r EXCEPT !.durations[m] = secs]

\* setDuration() that resets whatever mode is active.
setDuration_alwaysResets(t, m, minutes) ==
  LET secs == Mul(MathMax(1, MathMin(99, minutes)), 60)
      d    == [t EXCEPT !.durations[m] = secs]
  IN  reset(d)

setDuration(t, m, minutes) ==
  LET secs == Mul(MathMax(1, MathMin(99, minutes)), 60)
      d    == [t EXCEPT !.durations[m] = secs]
  IN  IF d.mode = m THEN reset(d) ELSE d

\* --------------------------------------------------------------- helpers
\* The two glyphs of the progress dots.
Filled == "filled"

Empty == "empty"

\* String.prototype.repeat for a one-glyph string: n copies of g.
RECURSIVE repeat(_, _)
repeat(g, n) == IF n <= 0 THEN <<>> ELSE <<g>> \o repeat(g, n - 1)

\* String(n) for a non-negative integer: its decimal digits.
DigitChars == <<"0", "1", "2", "3", "4", "5", "6", "7", "8", "9">>

RECURSIVE String(_)
String(n) ==
  IF n < 10 THEN <<DigitChars[n + 1]>>
  ELSE String(n \div 10) \o <<DigitChars[(n % 10) + 1]>>

\* str.padStart(len, ch).
RECURSIVE padStart(_, _, _)
padStart(str, len, ch) ==
  IF Len(str) >= len THEN str ELSE padStart(<<ch>> \o str, len, ch)

\* Mutant: the minutes wrap at the hour.
format_wrapsHour(seconds) ==
  padStart(String((seconds \div 60) % 60), 2, "0") \o <<":">>
    \o padStart(String(seconds % 60), 2, "0")

\* format(seconds): "MM:SS".
format(seconds) ==
  padStart(String(seconds \div 60), 2, "0") \o <<":">>
    \o padStart(String(seconds % 60), 2, "0")

\* The dots getter with one empty glyph too few.
dots_shortTail(t) ==
  LET filled == t.focusSessions % 4
  IN  repeat(Filled, filled) \o repeat(Empty, 3 - filled)

\* get dots(): the glyphs as a sequence.
dots(t) ==
  LET filled == t.focusSessions % 4
  IN  repeat(Filled, filled) \o repeat(Empty, 4 - filled)

\* get sessionNumber()
sessionNumber(t) == (t.focusSessions % 4) + 1

\* --------------------------------------------------------------- private
\* _handleEnd() with the long break after every session but the fourth.
_handleEnd_swapped(t) ==
  LET endedMode == t.mode
      c == IF endedMode = "focus"
             THEN [t EXCEPT !.focusSessions = @ + 1]
             ELSE t
      e == [c EXCEPT !.calls = Append(@, OnEnd(endedMode, c.focusSessions))]
  IN  IF endedMode = "focus"
        THEN setMode(e, IF e.focusSessions % 4 = 0 THEN "short" ELSE "long")
        ELSE setMode(e, "focus")

\* _handleEnd() that counts every expired session, breaks included.
_handleEnd_countsBreaks(t) ==
  LET endedMode == t.mode
      c == [t EXCEPT !.focusSessions = @ + 1]
      e == [c EXCEPT !.calls = Append(@, OnEnd(endedMode, c.focusSessions))]
  IN  IF endedMode = "focus"
        THEN setMode(e, IF e.focusSessions % 4 = 0 THEN "long" ELSE "short")
        ELSE setMode(e, "focus")

\* _handleEnd() that notifies onEnd before it counts the session.
_handleEnd_staleCount(t) ==
  LET endedMode == t.mode
      e == [t EXCEPT !.calls = Append(@, OnEnd(endedMode, t.focusSessions))]
      c == IF endedMode = "focus"
             THEN [e EXCEPT !.focusSessions = @ + 1]
             ELSE e
  IN  IF endedMode = "focus"
        THEN setMode(c, IF c.focusSessions % 4 = 0 THEN "long" ELSE "short")
        ELSE setMode(c, "focus")

\* _handleEnd() that starts the next session by itself.
_handleEnd_restarts(t) ==
  LET endedMode == t.mode
      c == IF endedMode = "focus"
             THEN [t EXCEPT !.focusSessions = @ + 1]
             ELSE t
      e == [c EXCEPT !.calls = Append(@, OnEnd(endedMode, c.focusSessions)),
                     !.atOnEnd = Append(@, Seen(c))]
  IN  IF endedMode = "focus"
        THEN start(setMode(e, IF e.focusSessions % 4 = 0
                                THEN "long" ELSE "short"))
        ELSE start(setMode(e, "focus"))

\* _handleEnd() that stops the countdown before it notifies onEnd.
_handleEnd_pausesFirst(t) ==
  LET endedMode == t.mode
      p == pause(t)
      c == IF endedMode = "focus"
             THEN [p EXCEPT !.focusSessions = @ + 1]
             ELSE p
      e == [c EXCEPT !.calls = Append(@, OnEnd(endedMode, c.focusSessions)),
                     !.atOnEnd = Append(@, Seen(c))]
  IN  IF endedMode = "focus"
        THEN setMode(e, IF e.focusSessions % 4 = 0 THEN "long" ELSE "short")
        ELSE setMode(e, "focus")

_handleEnd(t) ==
  LET endedMode == t.mode
      c == IF endedMode = "focus"
             THEN [t EXCEPT !.focusSessions = @ + 1]
             ELSE t
      e == [c EXCEPT !.calls = Append(@, OnEnd(endedMode, c.focusSessions)),
                     !.atOnEnd = Append(@, Seen(c))]
  IN  IF endedMode = "focus"
        THEN setMode(e, IF e.focusSessions % 4 = 0 THEN "long" ELSE "short")
        ELSE setMode(e, "focus")

\* _tick() that looks for the expiry before it notifies onTick.
_tick_checksFirst(t) ==
  LET d == [t EXCEPT !.timeLeft = Sub(@, 1)]
      n == [d EXCEPT !.calls = Append(@, OnTick(d.timeLeft, d.mode))]
  IN  IF Leq(d.timeLeft, 0) THEN _handleEnd(d) ELSE n

_tick(t) ==
  LET d == [t EXCEPT !.timeLeft = Sub(@, 1)]
      n == [d EXCEPT !.calls = Append(@, OnTick(d.timeLeft, d.mode))]
  IN  IF Leq(n.timeLeft, 0) THEN _handleEnd(n) ELSE n

\* ------------------------------------------------------------------ tasks
\* Tasks a list may hold, and the last value of the millisecond clock.
MaxTasks == 2

MaxClock == 1

\* Characters of the texts typed into the new-task field.
Chars == {" ", "a", "b"}

\* String.prototype.trim on a sequence of characters.
RECURSIVE trim(_)
trim(str) ==
  IF str = <<>> THEN str
  ELSE IF Head(str) = " " THEN trim(Tail(str))
  ELSE IF str[Len(str)] = " " THEN trim(SubSeq(str, 1, Len(str) - 1))
  ELSE str

\* JSON.stringify(items): each task as id, text and the literal true/false.
stringify(items) ==
  [i \in 1..Len(items) |->
     [id   |-> items[i].id,
      text |-> items[i].text,
      done |-> IF items[i].done THEN "true" ELSE "false"]]

\* JSON.parse of a stored array of tasks.
parse(json) ==
  [i \in 1..Len(json) |->
     [id   |-> json[i].id,
      text |-> json[i].text,
      done |-> json[i].done = "true"]]

\* _load(): the stored array, or [] when nothing is stored under the key.
_load(k) == IF k.store.present THEN parse(k.store.value) ELSE <<>>

\* _save()
_save(k) == [k EXCEPT !.store = [present |-> TRUE, value |-> stringify(k.items)]]

\* The state after `new TaskList()` on a browser that never stored tasks.
TaskList ==
  [items |-> <<>>,
   store |-> [present |-> FALSE, value |-> <<>>],
   now   |-> 0]

\* add() that forgets to save.
add_unsaved(k, text) ==
  LET task == [id |-> k.now, text |-> trim(text), done |-> FALSE]
  IN  [k EXCEPT !.items = Append(@, task)]

add(k, text) ==
  LET task == [id |-> k.now, text |-> trim(text), done |-> FALSE]
  IN  _save([k EXCEPT !.items = Append(@, task)])

\* items.find((t) => t.id === id): the index of the first match, or 0.
find(items, id) ==
  IF \E i \in 1..Len(items) : items[i].id = id
    THEN CHOOSE i \in 1..Len(items) :
           /\ items[i].id = id
           /\ \A j \in 1..(i - 1) : items[j].id # id
    ELSE 0

\* TaskList.toggle(id)
toggleTask(k, id) ==
  LET i == find(k.items, id)
  IN  IF i = 0 THEN k
      ELSE _save([k EXCEPT !.items[i].done = ~@])

\* items.filter((t) => t.id !== id)
RECURSIVE filter(_, _)
filter(items, id) ==
  IF items = <<>> THEN <<>>
  ELSE IF Head(items).id # id
    THEN <<Head(items)>> \o filter(Tail(items), id)
    ELSE filter(Tail(items), id)

\* TaskList.remove(id)
remove(k, id) == _save([k EXCEPT !.items = filter(@, id)])


\* -------------------------------------------------------------- app.js
\* Alarm audio contexts and alarm intervals that can exist at once, and the
\* longest countdown that is started.
MaxAlarms == 2

MaxCountdown == 1

AlarmHandles == 1..MaxAlarms

\* Callbacks that are handed to YouTubePlayer.onReady, and how often each.
Cbs == {"a", "b"}

MaxRegistrations == 2

\* musicSource, the YouTubePlayer (isReady, isMuted, volume, _readyCbs),
\* the YT.Player under it (whether the video plays, muted as created with
\* mute: 1, its volume, the video loaded), the Spotify embed (its
\* controller, and whether it plays) and settings.autoResume, as app.js and
\* player.js declare them; registered and runs count, per callback, the
\* onReady calls made with it and its invocations.
Music ==
  [musicSource       |-> "youtube",
   isReady           |-> FALSE,
   ytPlaying         |-> FALSE,
   spotifyController |-> FALSE,
   spotifyPlaying    |-> FALSE,
   autoResume        |-> TRUE,
   isMuted           |-> TRUE,
   volume            |-> 50,
   ytMuted           |-> TRUE,
   ytVolume          |-> 100,
   videoId           |-> 0,
   ytVideo           |-> 0,
   readyCbs          |-> <<>>,
   registered        |-> [c \in Cbs |-> 0],
   runs              |-> [c \in Cbs |-> 0]]

\* The alarm overlay (hidden), alarmCtx, alarmInterval, the audio contexts
\* not yet closed, the alarm intervals not yet cleared, settings.notifSounds.
Alarm ==
  [overlay       |-> FALSE,
   alarmCtx      |-> null,
   alarmInterval |-> null,
   contexts      |-> {},
   intervals     |-> {},
   notifSounds   |-> TRUE]

\* cdRunning, cdTotal, cdLeft, cdInterval, the countdown's live intervals
\* and the values parseInt reads from #inp-countdown-min / -sec.
Countdown ==
  [cdRunning  |-> FALSE,
   cdTotal    |-> 300,
   cdLeft     |-> 300,
   cdInterval |-> null,
   intervals  |-> {},
   minInput   |-> 5,
   secInput   |-> 0]

\* The page as one record: the timer, the music, the alarm, the countdown.
App == [t |-> This, music |-> music, alarm |-> alarm, cd |-> cd,
        label |-> label]

\* YouTubePlayer.play / pause / toggle: nothing before the player is ready.
player_play(w) ==
  IF w.music.isReady THEN [w EXCEPT !.music.ytPlaying = TRUE] ELSE w

player_pause(w) ==
  IF w.music.isReady THEN [w EXCEPT !.music.ytPlaying = FALSE] ELSE w

player_toggle(w) ==
  IF ~w.music.isReady THEN w
  ELSE IF w.music.ytPlaying THEN player_pause(w) ELSE player_play(w)

\* YouTubePlayer.mute().
player_mute(w) ==
  LET m == [w EXCEPT !.music.isMuted = TRUE]
  IN  IF m.music.isReady THEN [m EXCEPT !.music.ytMuted = TRUE] ELSE m

\* YouTubePlayer.unmute(): volume || 50 is 50 for volume 0.
player_unmute(w) ==
  LET u == [w EXCEPT !.music.isMuted = FALSE]
  IN  IF ~u.music.isReady THEN u
      ELSE [u EXCEPT !.music.ytMuted  = FALSE,
                     !.music.ytVolume = IF u.music.volume = 0
                                          THEN 50 ELSE u.music.volume]

\* YouTubePlayer.setVolume(vol).
player_setVolume(w, vol) ==
  LET v == [w EXCEPT !.music.volume = MathMax(0, MathMin(100, vol))]
  IN  IF ~v.music.isReady THEN v
      ELSE IF v.music.volume = 0 THEN player_mute(v)
      ELSE [v EXCEPT !.music.ytMuted  = FALSE,
                     !.music.ytVolume = v.music.volume,
                     !.music.isMuted  = FALSE]

\* YouTubePlayer.toggleMute().
player_toggleMute(w) ==
  IF w.music.isMuted THEN player_unmute(w) ELSE player_mute(w)

\* Mutant: the stream is loaded and the mute state left to the iframe.
player_loadVideo_unmuted(w, videoId) ==
  LET l == [w EXCEPT !.music.videoId = videoId]
  IN  IF ~l.music.isReady THEN l
      ELSE [l EXCEPT !.music.ytVideo   = videoId,
                     !.music.ytPlaying = TRUE,
                     !.music.ytMuted   = FALSE,
                     !.music.isMuted   = FALSE]

\* YouTubePlayer.loadVideo(videoId); loadVideoById starts the video.
player_loadVideo(w, videoId) ==
  LET l == [w EXCEPT !.music.videoId = videoId]
  IN  IF ~l.music.isReady THEN l
      ELSE LET v == [l EXCEPT !.music.ytVideo = videoId,
                              !.music.ytPlaying = TRUE]
           IN  IF v.music.isMuted
                 THEN [v EXCEPT !.music.ytMuted = TRUE]
                 ELSE [v EXCEPT !.music.ytMuted  = FALSE,
                                !.music.ytVolume = v.music.volume]

\* cb(): one more invocation of callback c.
invoke(w, c) == [w EXCEPT !.music.runs[c] = @ + 1]

\* Mutant: a callback is run at once even before the player is ready.
player_onReady_runsEarly(w, c) ==
  LET r == [w EXCEPT !.music.registered[c] = @ + 1]
  IN  IF r.music.isReady THEN invoke(r, c)
      ELSE [invoke(r, c) EXCEPT !.music.readyCbs = Append(@, c)]

\* YouTubePlayer.onReady(cb).
player_onReady(w, c) ==
  LET r == [w EXCEPT !.music.registered[c] = @ + 1]
  IN  IF r.music.isReady THEN invoke(r, c)
      ELSE [r EXCEPT !.music.readyCbs = Append(@, c)]

\* this._readyCbs.forEach((cb) => cb()).
RECURSIVE forEach(_, _)
forEach(w, cbs) ==
  IF Len(cbs) = 0 THEN w ELSE forEach(invoke(w, Head(cbs)), Tail(cbs))

\* YouTubePlayer._handleReady().
player_handleReady(w) ==
  LET r == [w EXCEPT !.music.isReady  = TRUE,
                     !.music.ytVolume = w.music.volume]
  IN  [forEach(r, r.music.readyCbs) EXCEPT !.music.readyCbs = <<>>]

\* Something is audible: the YouTube video or the Spotify embed plays.
MusicPlaying(m) == (m.isReady /\ m.ytPlaying) \/ m.spotifyPlaying

\* The YouTube player reports ready: the onReady callback of handleYTReady.
handleReady(w) ==
  LET r == [w EXCEPT !.music.isReady = TRUE]
  IN  IF ~(r.music.isReady /\ r.music.ytPlaying) THEN player_play(r) ELSE r

\* #btn-play-pause.
playPauseClick(w) ==
  IF w.music.musicSource = "spotify" /\ w.music.spotifyController
    THEN [w EXCEPT !.music.spotifyPlaying = ~@]
  ELSE IF w.music.musicSource = "youtube" /\ w.music.isReady
    THEN player_toggle(w)
  ELSE w

\* setMusicSource(source); the half-second fades end within the step, and
\* the playlist loadUri loads into the Spotify embed waits for Play.
setMusicSource(w, source) ==
  LET prevSource == w.music.musicSource
      s == [w EXCEPT !.music.musicSource = source]
  IN  IF source = "spotify"
        THEN [(IF prevSource = "youtube" THEN player_pause(s) ELSE s)
                EXCEPT !.music.spotifyPlaying = FALSE]
        ELSE player_play(s)

\* A free handle for a new AudioContext or a new alarm interval.
newAlarmHandle(used) == CHOOSE h \in AlarmHandles \ used :
                          \A g \in AlarmHandles \ used : h <= g

showAlarmOverlay(w) == [w EXCEPT !.alarm.overlay = TRUE]

hideAlarmOverlay(w) == [w EXCEPT !.alarm.overlay = FALSE]

\* Mutant: the alarm is silent whatever the setting.
startAlarm_silent(w) == showAlarmOverlay(w)

\* startAlarm(message).
startAlarm(w) ==
  IF ~w.alarm.notifSounds
    THEN showAlarmOverlay(w)
    ELSE LET o == showAlarmOverlay(w)
             c == newAlarmHandle(o.alarm.contexts)
             i == newAlarmHandle(o.alarm.intervals)
         IN  [o EXCEPT !.alarm.alarmCtx      = c,
                       !.alarm.contexts      = @ \cup {c},
                       !.alarm.alarmInterval = i,
                       !.alarm.intervals     = @ \cup {i}]

\* startAlarm can create its context and its interval.
AlarmRoom(a) ==
  \/ ~a.notifSounds
  \/ /\ AlarmHandles \ a.contexts # {}
     /\ AlarmHandles \ a.intervals # {}

\* stopAlarm().
stopAlarm(w) ==
  LET i == [w EXCEPT !.alarm.intervals     = @ \ {w.alarm.alarmInterval},
                     !.alarm.alarmInterval = null]
      c == IF i.alarm.alarmCtx # null
             THEN [i EXCEPT !.alarm.contexts = @ \ {i.alarm.alarmCtx},
                            !.alarm.alarmCtx = null]
             ELSE i
  IN  hideAlarmOverlay(c)

\* playAlarmPattern runs every 1.6 s and has a context to play in.
Sounding(a) == a.alarmCtx # null /\ a.intervals # {}

\* The onEnd callback initTimer gives the timer.
onEnd(w, endedMode) ==
  LET a == IF endedMode = "focus"
             THEN startAlarm(player_pause(w))
             ELSE startAlarm(IF w.music.autoResume THEN player_play(w) ELSE w)
  IN  [a EXCEPT !.label = "Start"]

\* The onModeChange callback initTimer gives the timer.
onModeChange(w, m) == [w EXCEPT !.label = "Start"]

\* The onTick callback initTimer gives the timer: the time display only.
onTick(w, secs, m) == w

\* The page's callbacks for the notifications of one call on the timer.
RECURSIVE callbacks(_, _)
callbacks(w, fired) ==
  IF Len(fired) = 0 THEN w
  ELSE LET c == Head(fired)
           n == CASE c.cb = "onEnd"        -> onEnd(w, c.mode)
                  [] c.cb = "onModeChange" -> onModeChange(w, c.mode)
                  [] c.cb = "onTick"       -> onTick(w, c.secs, c.mode)
       IN  callbacks(n, Tail(fired))

\* A call on the timer, then the page's callbacks for what it fired.
timerCall(w, t) == callbacks([w EXCEPT !.t = t], t.calls)

\* The interval callback of the timer, with the page's callbacks run.
timerTick(w) == timerCall(w, _tick(w.t))

\* #btn-timer-start.
timerStartClick(w) ==
  LET r == timerCall(w, toggle(w.t))
  IN  [r EXCEPT !.label = IF r.t.isRunning THEN "Pause" ELSE "Start"]

\* #btn-timer-reset.
timerResetClick(w) == [timerCall(w, reset(w.t)) EXCEPT !.label = "Start"]

\* A click on a mode tab.
modeTabClick(w, m) == timerCall(w, setMode(w.t, m))

\* 'change' on #inp-focus.
focusInputChange(w, v) == timerCall(w, setDuration(w.t, "focus", v))

\* 'change' on #inp-break.
breakInputChange(w, mins) ==
  LET a == timerCall(w, setDuration(w.t, "short", mins))
  IN  timerCall(a, setDuration([a.t EXCEPT !.calls = <<>>], "long",
                               Mul(mins, 3)))

\* readInputs(): NaN || 0 is 0.
readInputs(c) ==
  LET m0 == IF IsNaN(c.minInput) THEN 0 ELSE c.minInput
      s0 == IF IsNaN(c.secInput) THEN 0 ELSE c.secInput
  IN  MathMax(0, m0) * 60 + MathMax(0, MathMin(59, s0))

\* Mutant: the countdown's expiry also stops the session timer.
cdTick_pausesTimer(w) ==
  LET d == [w EXCEPT !.cd.cdLeft = @ - 1]
  IN  IF d.cd.cdLeft <= 0
        THEN startAlarm([d EXCEPT !.cd.intervals = @ \ {d.cd.cdInterval},
                                  !.cd.cdRunning = FALSE,
                                  !.t = pause(@)])
        ELSE d

\* The countdown's interval callback.
cdTick(w) ==
  LET d == [w EXCEPT !.cd.cdLeft = @ - 1]
  IN  IF d.cd.cdLeft <= 0
        THEN startAlarm([d EXCEPT !.cd.intervals = @ \ {d.cd.cdInterval},
                                  !.cd.cdRunning = FALSE])
        ELSE d

\* Mutant: Start does not look whether any time is left to count.
cdStartClick_startsAtZero(w) ==
  IF w.cd.cdRunning
    THEN [w EXCEPT !.cd.intervals = @ \ {w.cd.cdInterval},
                   !.cd.cdRunning = FALSE]
    ELSE LET r == IF w.cd.cdLeft <= 0
                    THEN [w EXCEPT !.cd.cdTotal = readInputs(w.cd),
                                   !.cd.cdLeft  = readInputs(w.cd)]
                    ELSE w
             h == CHOOSE h \in Handles \ r.cd.intervals :
                    \A g \in Handles \ r.cd.intervals : h <= g
         IN  [r EXCEPT !.cd.cdRunning  = TRUE,
                       !.cd.cdInterval = h,
                       !.cd.intervals  = @ \cup {h}]

\* #btn-countdown-start.
cdStartClick(w) ==
  IF w.cd.cdRunning
    THEN [w EXCEPT !.cd.intervals = @ \ {w.cd.cdInterval},
                   !.cd.cdRunning = FALSE]
    ELSE LET r == IF w.cd.cdLeft <= 0
                    THEN [w EXCEPT !.cd.cdTotal = readInputs(w.cd),
                                   !.cd.cdLeft  = readInputs(w.cd)]
                    ELSE w
         IN  IF r.cd.cdLeft <= 0 THEN r
             ELSE LET h == CHOOSE h \in Handles \ r.cd.intervals :
                             \A g \in Handles \ r.cd.intervals : h <= g
                  IN  [r EXCEPT !.cd.cdRunning  = TRUE,
                                !.cd.cdInterval = h,
                                !.cd.intervals  = @ \cup {h}]

\* #btn-countdown-reset.
cdResetClick(w) ==
  [w EXCEPT !.cd.intervals = @ \ {w.cd.cdInterval},
            !.cd.cdRunning = FALSE,
            !.cd.cdTotal   = readInputs(w.cd),
            !.cd.cdLeft    = readInputs(w.cd)]

\* A change of #inp-countdown-min / -sec to the values m : s.
cdInputChange(w, m, s) ==
  LET f == [w EXCEPT !.cd.minInput = m, !.cd.secInput = s]
  IN  IF ~f.cd.cdRunning
        THEN [f EXCEPT !.cd.cdTotal = readInputs(f.cd),
                       !.cd.cdLeft  = readInputs(f.cd)]
        ELSE f

\* ---------------------------------------------------------------- actions
\* The timer's variables take the values of record t; o names the operation.
TimerBecomes(t, o) ==
  /\ durations'     = t.durations
  /\ mode'          = t.mode
  /\ timeLeft'      = t.timeLeft
  /\ isRunning'     = t.isRunning
  /\ focusSessions' = t.focusSessions
  /\ interval'      = t.interval
  /\ scheduled'     = t.scheduled
  /\ calls'         = t.calls
  /\ onEndSaw'      = t.atOnEnd
  /\ op'            = o

\* A call on the timer alone: nothing outside the timer changes.
Becomes(t, o) == TimerBecomes(t, o) /\ UNCHANGED appVars

\* Minutes passed to setDuration: a value below the supported range and
\* one inside it.
MinutesInputs == {0, 1}

Start ==
  /\ Handles \ scheduled # {}
  /\ Becomes(start(This), [name |-> "start", was |-> isRunning])
  /\ UNCHANGED focusExpiries

Pause ==
  /\ Becomes(pause(This), [name |-> "pause", was |-> isRunning])
  /\ UNCHANGED focusExpiries

Toggle ==
  /\ Handles \ scheduled # {}
  /\ LET t == toggle(This)
     IN  Becomes(t, [name |-> "toggle", ret |-> t.isRunning])
  /\ UNCHANGED focusExpiries

Reset ==
  /\ Becomes(reset(This), [name |-> "reset", was |-> isRunning])
  /\ UNCHANGED focusExpiries

SetMode ==
  /\ \E m \in Modes :
       Becomes(setMode(This, m),
               [name |-> "setMode", mode |-> m, was |-> isRunning])
  /\ UNCHANGED focusExpiries

SetDuration ==
  /\ \E m \in Modes, minutes \in MinutesInputs :
       Becomes(setDuration(This, m, minutes),
               [name |-> "setDuration", mode |-> m, minutes |-> minutes,
                was |-> isRunning])
  /\ UNCHANGED focusExpiries

\* A tick that brings timeLeft to 0: the natural expiry of the session.
Expiring == timeLeft = 1

\* One firing of a live interval's callback, () => this._tick().
Tick ==
  /\ \E h \in scheduled : Becomes(_tick(This), [name |-> "tick"])
  /\ ~(Expiring /\ mode = "focus" /\ focusExpiries >= MaxSessions)
  /\ focusExpiries' = IF Expiring /\ mode = "focus"
                        THEN focusExpiries + 1 ELSE focusExpiries

Init ==
  /\ durations     = constructor.durations
  /\ mode          = constructor.mode
  /\ timeLeft      = constructor.timeLeft
  /\ isRunning     = constructor.isRunning
  /\ focusSessions = constructor.focusSessions
  /\ interval      = constructor.interval
  /\ scheduled     = constructor.scheduled
  /\ calls         = <<>>
  /\ op            = [name |-> "new"]
  /\ focusExpiries = 0
  /\ onEndSaw      = <<>>
  /\ tasks         = TaskList
  /\ music         = Music
  /\ alarm         = Alarm
  /\ cd            = Countdown
  /\ label         = "Start"

Next ==
  \/ Start
  \/ Pause
  \/ Toggle
  \/ Reset
  \/ SetMode
  \/ SetDuration
  \/ Tick

Spec == Init /\ [][Next]_vars

TypeOK ==
  /\ mode \in Modes
  /\ isRunning \in BOOLEAN
  /\ focusSessions \in Nat
  /\ scheduled \subseteq Handles
  /\ interval \in Handles \cup {null}
\* ------------------------------------------------------------- properties
\* The step just taken is a tick that brought timeLeft to 0.
NaturalExpiry == op'.name = "tick" /\ Expiring

\* The step just taken is the natural expiry of a focus session.
FocusExpiry == NaturalExpiry /\ mode = "focus"

\* The callbacks of kind cb among those the last operation fired.
Fired(cb) == {i \in 1..Len(calls) : calls[i].cb = cb}

\* C1: on natural expiry the timer advances by itself: from focus to long
\* when the updated focusSessions is a multiple of 4 and to short otherwise,
\* from short or long always to focus.
C1_AutoAdvance ==
  [][NaturalExpiry =>
       mode' = IF mode = "focus"
                 THEN (IF focusSessions' % 4 = 0 THEN "long" ELSE "short")
                 ELSE "focus"]_vars

\* The fourth focus session has just expired into the long break.
C1_Witness ==
  /\ op.name = "tick"
  /\ Fired("onEnd") # {}
  /\ focusSessions = 4
  /\ mode = "long"

\* C2: whatever calls are interleaved, the n-th natural focus expiry since
\* creation goes to long exactly when n is a multiple of 4, else to short.
C2_NthExpiry ==
  [][FocusExpiry =>
       mode' = IF focusExpiries' % 4 = 0 THEN "long" ELSE "short"]_vars

\* The fifth focus expiry has just gone to the short break again.
C2_Witness ==
  /\ op.name = "tick"
  /\ Fired("onEnd") # {}
  /\ focusExpiries = 5
  /\ mode = "short"

\* C3: focusSessions starts at 0, grows by exactly 1 on each natural focus
\* expiry and is left alone by every other operation and by break expiries.
C3_SessionCount ==
  /\ focusSessions = 0
  /\ [][focusSessions' = IF FocusExpiry THEN focusSessions + 1
                                        ELSE focusSessions]_vars

\* A break has just expired after two counted focus sessions.
C3_Witness ==
  /\ op.name = "tick"
  /\ Fired("onEnd") # {}
  /\ mode = "focus"
  /\ focusSessions = 2

\* C4: onEnd fires exactly once per natural expiry, with the expired mode
\* and the already updated session count, and in no other step.
C4_OnEndOnce ==
  [][IF NaturalExpiry
       THEN /\ Cardinality(Fired("onEnd")') = 1
            /\ \A i \in Fired("onEnd")' :
                 calls'[i] = OnEnd(mode, IF mode = "focus"
                                           THEN focusSessions + 1
                                           ELSE focusSessions)
       ELSE Fired("onEnd")' = {}]_vars

\* onEnd has just reported the third focus session.
C4_Witness ==
  /\ op.name = "tick"
  /\ \E i \in Fired("onEnd") : calls[i] = OnEnd("focus", 3)

\* C5: the expiring tick fires onTick(0, m), onEnd(m, focusSessions),
\* onModeChange(next), onTick(durations[next], next), these four and in
\* this order, next being the automatically chosen mode.
C5_ExpiryOrder ==
  [][NaturalExpiry =>
       LET next == IF mode = "focus"
                     THEN (IF focusSessions' % 4 = 0 THEN "long" ELSE "short")
                     ELSE "focus"
       IN  calls' = << OnTick(0, mode),
                       OnEnd(mode, focusSessions'),
                       OnModeChange(next),
                       OnTick(durations'[next], next) >>]_vars

\* The first focus session expired with the default short break next.
C5_Witness ==
  /\ op.name = "tick"
  /\ calls = << OnTick(0, "focus"), OnEnd("focus", 1),
                OnModeChange("short"), OnTick(5 * 60, "short") >>
\* C6: after any sequence of calls and ticks exactly one countdown interval
\* is scheduled while isRunning is true and none while it is false.
C6_OneInterval == Cardinality(scheduled) = (IF isRunning THEN 1 ELSE 0)

\* start() was called again on a timer that had been running for 3 ticks.
C6_Witness ==
  /\ op = [name |-> "start", was |-> TRUE]
  /\ mode = "focus"
  /\ timeLeft = 25 * 60 - 3
  /\ scheduled = {interval}

\* C7: toggle() pauses a running timer and starts a paused one, returns the
\* resulting isRunning, and a toggle() right after one that returned true
\* returns false and leaves the timer paused.
C7_Toggle ==
  [][op'.name = "toggle" =>
       /\ isRunning' = ~isRunning
       /\ op'.ret = isRunning'
       /\ IF isRunning
            THEN scheduled' = {} /\ interval' = null
            ELSE Cardinality(scheduled') = 1 /\ scheduled' = {interval'}
       /\ UNCHANGED <<durations, mode, timeLeft, focusSessions>>
       /\ calls' = <<>>
       /\ (op.name = "toggle" /\ op.ret) => (~op'.ret /\ ~isRunning')]_vars

\* toggle() has just returned false on the untouched first session.
C7_Witness ==
  /\ op = [name |-> "toggle", ret |-> FALSE]
  /\ ~isRunning
  /\ mode = "focus"
  /\ timeLeft = 25 * 60
  /\ focusSessions = 0

\* C8: start() and pause() leave mode, timeLeft, durations and focusSessions
\* alone and fire no callback; start() on a running timer and pause() on a
\* paused one change no field at all.
C8_StartPauseFrame ==
  [][op'.name \in {"start", "pause"} =>
       /\ UNCHANGED <<durations, mode, timeLeft, focusSessions>>
       /\ calls' = <<>>
       /\ (op'.name = "start" /\ isRunning) => UNCHANGED fields
       /\ (op'.name = "pause" /\ ~isRunning) => UNCHANGED fields]_vars

\* pause() was called on a timer already paused one tick into the session.
C8_Witness ==
  /\ op = [name |-> "pause", was |-> FALSE]
  /\ mode = "focus"
  /\ timeLeft = 25 * 60 - 1

\* C9: reset(), running or paused, stops the countdown, sets timeLeft to
\* the current mode's duration, keeps mode and focusSessions, and fires one
\* onTick(timeLeft, mode) and nothing else.
C9_Reset ==
  [][op'.name = "reset" =>
       /\ ~isRunning' /\ scheduled' = {} /\ interval' = null
       /\ timeLeft' = durations[mode]
       /\ UNCHANGED <<durations, mode, focusSessions>>
       /\ calls' = <<OnTick(durations[mode], mode)>>]_vars

\* reset() has just stopped a running short break.
C9_Witness ==
  /\ op = [name |-> "reset", was |-> TRUE]
  /\ mode = "short"
  /\ calls = <<OnTick(5 * 60, "short")>>
  /\ ~isRunning

\* C10: setMode(m) stops the countdown, sets mode to m and timeLeft to
\* durations[m], keeps focusSessions, and fires onModeChange(m) then
\* onTick(durations[m], m), once each; and every step that changes the
\* mode fires exactly one onModeChange, for the new mode.
C10_SetMode ==
  [][/\ op'.name = "setMode" =>
          /\ ~isRunning' /\ scheduled' = {} /\ interval' = null
          /\ mode' = op'.mode
          /\ timeLeft' = durations[op'.mode]
          /\ UNCHANGED <<durations, focusSessions>>
          /\ calls' = <<OnModeChange(op'.mode),
                        OnTick(durations[op'.mode], op'.mode)>>
     /\ mode' # mode =>
          /\ Cardinality(Fired("onModeChange")') = 1
          /\ \A i \in Fired("onModeChange")' :
               /\ calls'[i] = OnModeChange(mode')
               /\ i < Len(calls')
               /\ calls'[i + 1] = OnTick(timeLeft', mode')]_vars

\* setMode('long') has just interrupted a running session.
C10_Witness ==
  /\ op = [name |-> "setMode", mode |-> "long", was |-> TRUE]
  /\ focusSessions = 1
  /\ calls = <<OnModeChange("long"), OnTick(15 * 60, "long")>>
\* ------------------------------------------------- duration configuration
\* Integer minutes on both sides of the two limits of setDuration.
DurMinutes == {-1, 0, 1, 2, 50, 98, 99, 100, 101}

\* setDuration(mode, minutes) for the integers of DurMinutes.
SetDurationAny ==
  /\ \E m \in Modes, minutes \in DurMinutes :
       Becomes(setDuration(This, m, minutes),
               [name |-> "setDuration", mode |-> m, minutes |-> minutes,
                was |-> isRunning])
  /\ UNCHANGED focusExpiries

NextDur ==
  \/ Start
  \/ Pause
  \/ Toggle
  \/ Reset
  \/ SetMode
  \/ SetDurationAny

\* The control methods with setDuration over DurMinutes, without ticks.
SpecDur == Init /\ [][NextDur]_vars

\* The number of minutes nearest to an integer within 1..99.
Clamped(minutes) ==
  IF minutes < 1 THEN 1 ELSE IF minutes > 99 THEN 99 ELSE minutes

\* C11: for every integer minutes and every mode, setDuration stores
\* min(99, max(1, minutes)) * 60 seconds for that mode and nothing else in
\* durations, and a setMode(mode) that follows yields that value as timeLeft.
C11_Clamp ==
  [][/\ op'.name = "setDuration" =>
          durations' = [durations EXCEPT
                          ![op'.mode] = Clamped(op'.minutes) * 60]
     /\ (op.name = "setDuration" /\ op'.name = "setMode"
           /\ op'.mode = op.mode) =>
          timeLeft' = Clamped(op.minutes) * 60]_vars

\* setMode('short') has just followed setDuration('short', 101).
C11_Witness ==
  /\ op.name = "setMode"
  /\ op.mode = "short"
  /\ mode = "short"
  /\ timeLeft = 99 * 60
  /\ durations["short"] = 99 * 60
  /\ durations["focus"] = 60

\* C12: setDuration on the active mode resets: the countdown stops even if
\* it was running, timeLeft becomes the duration just stored (the clamped
\* minutes times 60), one onTick fires with it, and mode and focusSessions
\* stay.
C12_SetDurationActive ==
  [][(op'.name = "setDuration" /\ op'.mode = mode) =>
       /\ ~isRunning' /\ scheduled' = {} /\ interval' = null
       /\ timeLeft' = Clamped(op'.minutes) * 60
       /\ timeLeft' = durations'[mode]
       /\ calls' = <<OnTick(Clamped(op'.minutes) * 60, mode)>>
       /\ UNCHANGED <<mode, focusSessions>>]_vars

\* setDuration('short', 1) has just stopped a running short break.
C12_Witness ==
  /\ op = [name |-> "setDuration", mode |-> "short", minutes |-> 1,
           was |-> TRUE]
  /\ mode = "short"
  /\ timeLeft = 60
  /\ isRunning = FALSE
  /\ focusSessions = 1

\* C13: setDuration on a mode that is not active changes durations[mode]
\* only and fires nothing, also while running; the stored duration becomes
\* timeLeft when the timer next enters a mode.
C13_SetDurationOther ==
  [][/\ (op'.name = "setDuration" /\ op'.mode # mode) =>
          /\ UNCHANGED <<mode, timeLeft, isRunning, interval, scheduled,
                         focusSessions>>
          /\ durations' = [durations EXCEPT
                             ![op'.mode] = Clamped(op'.minutes) * 60]
          /\ calls' = <<>>
     /\ mode' # mode => timeLeft' = durations[mode']]_vars

\* A running focus session has just had the short break set to 1 minute.
C13_Witness ==
  /\ op = [name |-> "setDuration", mode |-> "short", minutes |-> 1,
           was |-> TRUE]
  /\ mode = "focus"
  /\ isRunning
  /\ timeLeft = 25 * 60 - 2
  /\ durations["short"] = 60

\* C20: sessionNumber is (focusSessions mod 4) + 1, and dots is 4 glyphs of
\* which the first focusSessions mod 4 are filled and the others empty.
C20_Progress ==
  LET d == dots(This)
      k == sessionNumber(This)
  IN  /\ Len(d) = 4
      /\ k \in 1..4
      /\ \A i \in 1..4 : d[i] = (IF i < k THEN Filled ELSE Empty)
      /\ \E q \in 0..focusSessions : focusSessions = 4 * q + (k - 1)
      /\ focusSessions = 0 => (k = 1 /\ d = <<Empty, Empty, Empty, Empty>>)
      /\ focusSessions = 3 => (k = 4 /\ d = <<Filled, Filled, Filled, Empty>>)
      /\ focusSessions = 4 => (k = 1 /\ d = <<Empty, Empty, Empty, Empty>>)

\* Four sessions are complete and the group indicator has wrapped around.
C20_Witness ==
  /\ focusSessions = 4
  /\ sessionNumber(This) = 1
  /\ dots(This) = <<Empty, Empty, Empty, Empty>>
\* ---------------------------------------------------- app: duration inputs
\* parseInt(e.target.value, 10) of a duration field: NaN for an empty or
\* non-numeric field, otherwise the integer typed.
ParsedValues == {NaN, -5, 0, 1, 2, 33, 34, 99, 100}

\* 'change' on #inp-focus.
FocusInputChange ==
  /\ \E v \in ParsedValues :
       Becomes(setDuration(This, "focus", v),
               [name |-> "inp-focus", value |-> v])
  /\ UNCHANGED focusExpiries

\* 'change' on #inp-break: the short break, then the long one at 3 times.
BreakInputChange ==
  /\ \E mins \in ParsedValues :
       LET a == setDuration(This, "short", mins)
           b == setDuration(a, "long", Mul(mins, 3))
       IN  Becomes(b, [name |-> "inp-break", value |-> mins])
  /\ UNCHANGED focusExpiries

NextInputs ==
  \/ FocusInputChange
  \/ BreakInputChange
  \/ SetMode
  \/ Toggle
  \/ Reset

\* The timer driven by the app's duration fields, mode tabs and buttons.
SpecInputs == Init /\ [][NextInputs]_vars

\* C14: exactly one of focus, short, long is active and
\* 0 <= timeLeft <= durations[mode].
C14_TimeLeftInRange ==
  /\ mode \in Modes
  /\ Leq(0, timeLeft)
  /\ Leq(timeLeft, durations[mode])

\* C15: whatever the duration fields deliver, each of the three durations
\* is a whole number of seconds from 60 to 5940.
C15_DurationsInRange ==
  \A m \in Modes : ~IsNaN(durations[m]) /\ durations[m] \in 60..5940
\* ------------------------------------------------------------ app: tasks
\* Texts that can be typed: up to two characters.
TextInputs == {<<c>> : c \in Chars} \cup {<<c, e>> : c \in Chars, e \in Chars}

TaskAdd ==
  /\ Len(tasks.items) < MaxTasks
  /\ \E text \in TextInputs :
       /\ tasks' = add(tasks, text)
       /\ op' = [name |-> "task-add", text |-> text]
  /\ UNCHANGED timerVars
  /\ UNCHANGED pageVars

TaskToggle ==
  /\ \E id \in 0..MaxClock :
       /\ tasks' = toggleTask(tasks, id)
       /\ op' = [name |-> "task-toggle", id |-> id]
  /\ UNCHANGED timerVars
  /\ UNCHANGED pageVars

TaskRemove ==
  /\ \E id \in 0..MaxClock :
       /\ tasks' = remove(tasks, id)
       /\ op' = [name |-> "task-remove", id |-> id]
  /\ UNCHANGED timerVars
  /\ UNCHANGED pageVars

\* Date.now() moves on by a millisecond.
ClockTick ==
  /\ tasks.now < MaxClock
  /\ tasks' = [tasks EXCEPT !.now = @ + 1]
  /\ op' = [name |-> "clock"]
  /\ UNCHANGED timerVars
  /\ UNCHANGED pageVars

\* A page refresh: a new TaskList is constructed over the same storage.
PageRefresh ==
  /\ tasks' = [tasks EXCEPT !.items = _load(tasks)]
  /\ op' = [name |-> "refresh"]
  /\ UNCHANGED timerVars
  /\ UNCHANGED pageVars

NextTasks ==
  \/ TaskAdd
  \/ TaskToggle
  \/ TaskRemove
  \/ ClockTick
  \/ PageRefresh

\* The task list alone.
SpecTasks == Init /\ [][NextTasks]_vars

\* C19: after any sequence of add, toggle and remove the value stored under
\* the key decodes to the current items, so the list constructed after a
\* refresh has the same tasks in the same order with the same text and done
\* flags.
C19_TasksPersist ==
  /\ _load(tasks) = tasks.items
  /\ Len(tasks.items) > 0 => tasks.store.present

\* A refresh has just rebuilt a list of a done task and an open one.
C19_Witness ==
  /\ op.name = "refresh"
  /\ Len(tasks.items) = 2
  /\ tasks.items[1].done
  /\ ~tasks.items[2].done
  /\ tasks.items[1].text = <<"a">>
  /\ tasks.items[2].text = <<"b">>

\* ------------------------------------------------------------- app: page
\* Focus sessions that run, each with its break, when the whole page is
\* explored.
MaxAppSessions == 1

\* The page's variables take the values of record w; o names the handler.
AppBecomes(w, o) ==
  /\ TimerBecomes(w.t, o)
  /\ music' = w.music
  /\ alarm' = w.alarm
  /\ cd'    = w.cd
  /\ label' = w.label
  /\ UNCHANGED tasks

\* #btn-timer-start: timer.toggle(), and the label.
TimerStartClick ==
  /\ Handles \ scheduled # {}
  /\ AppBecomes(timerStartClick(App), [name |-> "btn-timer-start"])
  /\ UNCHANGED focusExpiries

\* #btn-timer-reset: timer.reset(), and the label.
TimerResetClick ==
  /\ AppBecomes(timerResetClick(App), [name |-> "btn-timer-reset"])
  /\ UNCHANGED focusExpiries

\* One firing of the timer's interval, with the page listening.
PomodoroTick ==
  /\ scheduled # {}
  /\ ~(mode = "focus" /\ focusExpiries >= MaxAppSessions)
  /\ Expiring => AlarmRoom(alarm)
  /\ AppBecomes(timerTick(App), [name |-> "tick"])
  /\ focusExpiries' = IF Expiring /\ mode = "focus"
                        THEN focusExpiries + 1 ELSE focusExpiries

\* The YouTube iframe reports that the player is ready.
PlayerReady ==
  /\ ~music.isReady
  /\ AppBecomes(handleReady(App), [name |-> "yt-ready"])
  /\ UNCHANGED focusExpiries

\* The Spotify embed hands over its controller.
SpotifyReady ==
  /\ ~music.spotifyController
  /\ AppBecomes([App EXCEPT !.music.spotifyController = TRUE],
                [name |-> "spotify-ready"])
  /\ UNCHANGED focusExpiries

PlayPauseClick ==
  /\ AppBecomes(playPauseClick(App), [name |-> "btn-play-pause"])
  /\ UNCHANGED focusExpiries

SourceClick ==
  /\ \E source \in {"youtube", "spotify"} :
       AppBecomes(setMusicSource(App, source), [name |-> "source-btn"])
  /\ UNCHANGED focusExpiries

\* #setting-auto-resume is ticked or unticked.
AutoResumeChange ==
  /\ AppBecomes([App EXCEPT !.music.autoResume = ~@],
                [name |-> "setting-auto-resume"])
  /\ UNCHANGED focusExpiries

NextMusic ==
  \/ TimerStartClick
  \/ PomodoroTick
  \/ PlayerReady
  \/ SpotifyReady
  \/ PlayPauseClick
  \/ SourceClick
  \/ AutoResumeChange

\* The session timer and the music controls of the page.
SpecMusic == Init /\ [][NextMusic]_vars

\* C16: after a focus session expires naturally no music is playing, and
\* after a short or long break expires naturally music is playing.
C16_MusicFollowsTimer ==
  [][/\ FocusExpiry => ~MusicPlaying(music')
     /\ NaturalExpiry /\ mode # "focus" => MusicPlaying(music')]_vars

\* ---------------------------------------------------- app: alarm, countdown
\* #btn-alarm-stop.
AlarmStopClick ==
  /\ AppBecomes(stopAlarm(App), [name |-> "btn-alarm-stop"])
  /\ UNCHANGED focusExpiries

\* #setting-notif-sounds is ticked or unticked.
NotifSoundsChange ==
  /\ AppBecomes([App EXCEPT !.alarm.notifSounds = ~@],
                [name |-> "setting-notif-sounds"])
  /\ UNCHANGED focusExpiries

\* Values typed into the countdown's fields: 0 minutes, a few seconds.
CdMinutes == {0}

CdSeconds == 0..MaxCountdown

\* A countdown of at most MaxCountdown seconds is started, or a running
\* one is paused.
CdStartClick ==
  /\ Handles \ cd.intervals # {}
  /\ cdStartClick(App).cd.cdLeft <= MaxCountdown
  /\ AppBecomes(cdStartClick(App), [name |-> "btn-countdown-start"])
  /\ UNCHANGED focusExpiries

CdResetClick ==
  /\ AppBecomes(cdResetClick(App), [name |-> "btn-countdown-reset"])
  /\ UNCHANGED focusExpiries

CdInputChange ==
  /\ \/ \E m \in CdMinutes :
          AppBecomes(cdInputChange(App, m, cd.secInput),
                     [name |-> "inp-countdown"])
     \/ \E sec \in CdSeconds :
          AppBecomes(cdInputChange(App, cd.minInput, sec),
                     [name |-> "inp-countdown"])
  /\ UNCHANGED focusExpiries

\* The countdown is about to reach zero.
CdExpiring == cd.cdLeft <= 1

\* One firing of the countdown's interval.
CdTick ==
  /\ cd.cdInterval \in cd.intervals
  /\ CdExpiring => AlarmRoom(alarm)
  /\ AppBecomes(cdTick(App), [name |-> "cd-tick"])
  /\ UNCHANGED focusExpiries

NextPage ==
  \/ TimerStartClick
  \/ TimerResetClick
  \/ PomodoroTick
  \/ CdStartClick
  \/ CdResetClick
  \/ CdInputChange
  \/ CdTick
  \/ AlarmStopClick
  \/ NotifSoundsChange

\* The timer once 1 has been entered in #inp-focus and in #inp-break:
\* sessions of one minute, breaks of one and three minutes.
OneMinuteSessions ==
  /\ durations = [m \in Modes |-> IF m = "long" THEN 180 ELSE 60]
  /\ mode = "focus"
  /\ timeLeft = 60
  /\ isRunning = FALSE
  /\ focusSessions = 0
  /\ interval = null
  /\ scheduled = {}
  /\ calls = <<>>
  /\ op = [name |-> "inp-break", value |-> 1]
  /\ focusExpiries = 0
  /\ onEndSaw = <<>>

\* The page, loaded and set to one-minute sessions.
InitPage ==
  /\ OneMinuteSessions
  /\ tasks = TaskList
  /\ music = Music
  /\ alarm = Alarm
  /\ cd    = Countdown
  /\ label = "Start"

\* The session timer, the countdown and the alarm they share.
SpecPage == InitPage /\ [][NextPage]_vars

\* A step in which a timer ends: the session timer's last tick, or the
\* countdown's.
PomodoroEnds == op'.name = "tick" /\ Expiring

CountdownEnds == op'.name = "cd-tick" /\ CdExpiring

\* The step is anything but a press on Stop.
NoStop == op'.name # "btn-alarm-stop"

\* The alarm in full: overlay shown and sound looping.
AlarmActive(a) == a.overlay /\ Sounding(a)

CountdownOps ==
  {"btn-countdown-start", "btn-countdown-reset", "inp-countdown", "cd-tick"}

PomodoroOps == {"btn-timer-start", "btn-timer-reset", "tick"}

MaxSeconds == 130

FormatInputs ==
  0..MaxSeconds \cup {599, 600, 3599, 3600, 3661, 5940, 5999, 6000, 6005}

\* timer.format(seconds) is called; the timer is left alone.
Format ==
  /\ \E seconds \in FormatInputs :
       op' = [name |-> "format", seconds |-> seconds, ret |-> format(seconds)]
  /\ UNCHANGED timerVars
  /\ UNCHANGED appVars

NextFormat ==
  \/ Format
  \/ SetMode
  \/ Toggle

\* format called in any state of the timer's mode and running flag.
SpecFormat == Init /\ [][NextFormat]_vars

\* parseInt of a string of digits.
RECURSIVE DigitsValue(_)
DigitsValue(str) ==
  IF Len(str) = 0 THEN 0
  ELSE DigitsValue(SubSeq(str, 1, Len(str) - 1)) * 10
         + (CHOOSE d \in 0..9 : DigitChars[d + 1] = str[Len(str)])

\* C21: for a non-negative integer s, format(s) is floor(s / 60) and
\* s mod 60 in decimal, each padded with zeros to two digits and no further,
\* joined by one colon; minutes go past 59; format(65) is 01:05 and
\* format(0) is 00:00, whatever the timer's state.
C21_Format ==
  op.name = "format" =>
    LET r == op.ret
        colons == {i \in 1..Len(r) : r[i] = ":"}
        k == CHOOSE i \in colons : TRUE
        mm == SubSeq(r, 1, k - 1)
        ss == SubSeq(r, k + 1, Len(r))
    IN  /\ Cardinality(colons) = 1
        /\ \A i \in 1..Len(r) : i # k => \E d \in 1..10 : DigitChars[d] = r[i]
        /\ DigitsValue(mm) = op.seconds \div 60
        /\ DigitsValue(ss) = op.seconds % 60
        /\ Len(ss) = 2
        /\ Len(mm) >= 2
        /\ Len(mm) > 2 => mm[1] # "0"
        /\ op.seconds = 65 => r = <<"0", "1", ":", "0", "5">>
        /\ op.seconds = 0 => r = <<"0", "0", ":", "0", "0">>

\* One hundred minutes and five seconds were formatted while the timer ran.
C21_Witness ==
  /\ op.name = "format"
  /\ op.seconds = 6005
  /\ op.ret = <<"1", "0", "0", ":", "0", "5">>
  /\ isRunning

\* ------------------------------------------------------ YouTubePlayer
\* Volumes handed to setVolume, and the streams loaded.
VolumeInputs == {-5, 0, 30, 150}

VideoIds == {0, 1}

PlayerPlay ==
  /\ AppBecomes(player_play(App), [name |-> "player.play"])
  /\ UNCHANGED focusExpiries

PlayerPause ==
  /\ AppBecomes(player_pause(App), [name |-> "player.pause"])
  /\ UNCHANGED focusExpiries

PlayerToggle ==
  /\ AppBecomes(player_toggle(App), [name |-> "player.toggle"])
  /\ UNCHANGED focusExpiries

PlayerSetVolume ==
  /\ \E vol \in VolumeInputs :
       AppBecomes(player_setVolume(App, vol),
                  [name |-> "player.setVolume", vol |-> vol])
  /\ UNCHANGED focusExpiries

PlayerMute ==
  /\ AppBecomes(player_mute(App), [name |-> "player.mute"])
  /\ UNCHANGED focusExpiries

PlayerUnmute ==
  /\ AppBecomes(player_unmute(App), [name |-> "player.unmute"])
  /\ UNCHANGED focusExpiries

PlayerToggleMute ==
  /\ AppBecomes(player_toggleMute(App), [name |-> "player.toggleMute"])
  /\ UNCHANGED focusExpiries

PlayerLoadVideo ==
  /\ \E videoId \in VideoIds :
       AppBecomes(player_loadVideo(App, videoId),
                  [name |-> "player.loadVideo", videoId |-> videoId])
  /\ UNCHANGED focusExpiries

\* The iframe's onReady event, which YouTube sends once.
PlayerReadyEvent ==
  /\ ~music.isReady
  /\ AppBecomes(player_handleReady(App), [name |-> "player.ready"])
  /\ UNCHANGED focusExpiries

PlayerOnReady ==
  /\ \E c \in Cbs :
       /\ music.registered[c] < MaxRegistrations
       /\ AppBecomes(player_onReady(App, c),
                     [name |-> "player.onReady", cb |-> c])
  /\ UNCHANGED focusExpiries

NextPlayer ==
  \/ PlayerPlay
  \/ PlayerPause
  \/ PlayerToggle
  \/ PlayerSetVolume
  \/ PlayerMute
  \/ PlayerUnmute
  \/ PlayerToggleMute
  \/ PlayerLoadVideo
  \/ PlayerReadyEvent

\* The YouTubePlayer's playback, volume and stream methods.
SpecPlayer == Init /\ [][NextPlayer]_vars

NextReady ==
  \/ PlayerOnReady
  \/ PlayerReadyEvent
  \/ PlayerPlay
  \/ PlayerPause
  \/ PlayerToggle

\* The YouTubePlayer's ready callbacks and its playback methods.
SpecReady == Init /\ [][NextReady]_vars

\* C22: the player starts muted; isMuted turns false only in setVolume
\* with a volume above 0, unmute or toggleMute; play, pause, toggle, the
\* ready event and loadVideo leave isMuted as it is; and after loadVideo
\* on a ready player the iframe plays the new stream muted exactly when
\* isMuted says so.
C22_MutedUntilUnmuted ==
  [][/\ op.name = "new" => music.isMuted
     /\ music.isMuted /\ ~music'.isMuted =>
          \/ op'.name = "player.setVolume" /\ op'.vol > 0
          \/ op'.name \in {"player.unmute", "player.toggleMute"}
     /\ op'.name \in {"player.play", "player.pause", "player.toggle",
                      "player.ready", "player.loadVideo"} =>
          music'.isMuted = music.isMuted
     /\ op'.name = "player.loadVideo" /\ music.isReady =>
          /\ music'.ytVideo = op'.videoId
          /\ music'.ytMuted = music'.isMuted]_vars

\* unmute() came before the ready event, so the iframe was still muted
\* when loadVideo brought another stream and unmuted it.
C22_Witness ==
  /\ op.name = "player.loadVideo"
  /\ music.isReady
  /\ ~music.isMuted
  /\ ~music.ytMuted
  /\ music.ytVideo = 1
  /\ music.ytVolume = 50

\* How often callback c stands in the queue.
Queued(cbs, c) == Cardinality({i \in 1..Len(cbs) : cbs[i] = c})

\* C27: every callback given to onReady has run once per registration as
\* soon as the player is ready and not at all before, waits in the queue
\* until then and never afterwards; play, pause and toggle before the ready
\* event leave the iframe as it is.
C27_ReadyOnce ==
  [][/\ \A c \in Cbs :
          /\ music'.runs[c] =
               (IF music'.isReady THEN music'.registered[c] ELSE 0)
          /\ Queued(music'.readyCbs, c) =
               (IF music'.isReady THEN 0 ELSE music'.registered[c])
     /\ op'.name \in {"player.play", "player.pause", "player.toggle"}
          /\ ~music.isReady =>
          /\ music'.ytPlaying = music.ytPlaying
          /\ music'.ytMuted = music.ytMuted
          /\ music'.ytVolume = music.ytVolume
          /\ music'.ytVideo = music.ytVideo]_vars

\* Callbacks a and b were queued before the ready event and a was given
\* again to the ready player: a has run twice, b once.
C27_Witness ==
  /\ music.isReady
  /\ music.registered["a"] = 2
  /\ music.runs["a"] = 2
  /\ music.runs["b"] = 1
  /\ op.name = "player.onReady"
  /\ music.readyCbs = <<>>

\* ------------------------------------------------- timer: short sessions
\* Every method of the timer and its ticks, from one-minute sessions.
SpecShort == InitPage /\ [][Next]_vars

\* C23 as stated: when onEnd is invoked on a natural expiry, isRunning is
\* already false and no interval is scheduled.
C23_StoppedAtOnEnd ==
  [][NaturalExpiry =>
       /\ Len(onEndSaw') = 1
       /\ ~onEndSaw'[1].isRunning
       /\ onEndSaw'[1].scheduled = {}]_vars

\* C23 amended: on a natural expiry the countdown is stopped by the
\* automatic advancement, after onEnd: when onEnd is invoked timeLeft is 0,
\* the mode is the expiring one, isRunning is still true and the interval is
\* still scheduled; when the expiring tick is over isRunning is false and no
\* interval is scheduled.
C23_StoppedAfterOnEnd ==
  [][NaturalExpiry =>
       /\ Len(onEndSaw') = 1
       /\ onEndSaw'[1].isRunning
       /\ onEndSaw'[1].scheduled = {interval}
       /\ interval # null
       /\ onEndSaw'[1].timeLeft = 0
       /\ onEndSaw'[1].mode = mode
       /\ ~isRunning'
       /\ scheduled' = {}]_vars

\* A short break has just expired: onEnd found the timer running, and it
\* is stopped now.
C23_Witness ==
  /\ op.name = "tick"
  /\ Len(onEndSaw) = 1
  /\ onEndSaw[1].mode = "short"
  /\ onEndSaw[1].isRunning
  /\ mode = "focus"
  /\ ~isRunning

\* C24: a tick takes exactly 1 from timeLeft and notifies onTick with the
\* new value first, also when that value is 0 and the next mode's full
\* duration follows; timeLeft grows only in reset, setMode, setDuration on
\* the active mode and the automatic advancement of an expiry.
C24_TickDown ==
  [][/\ op'.name = "tick" =>
          /\ isRunning
          /\ calls'[1] = OnTick(timeLeft - 1, mode)
          /\ IF Expiring
               THEN /\ calls'[Len(calls')] = OnTick(durations[mode'], mode')
                    /\ timeLeft' = durations[mode']
               ELSE /\ calls' = <<OnTick(timeLeft - 1, mode)>>
                    /\ timeLeft' = timeLeft - 1
     /\ timeLeft' > timeLeft =>
          \/ op'.name \in {"reset", "setMode"}
          \/ op'.name = "setDuration" /\ op'.mode = mode
          \/ NaturalExpiry]_vars

\* The last tick of a long break: 0 was shown, then the focus duration.
C24_Witness ==
  /\ op.name = "tick"
  /\ Len(calls) = 4
  /\ calls[1] = OnTick(0, "long")
  /\ calls[4] = OnTick(60, "focus")
  /\ timeLeft = 60

\* C25: after a natural expiry the timer is stopped at the full duration
\* of the next mode, with no interval scheduled; it runs again only through
\* start() or toggle(), and no tick comes while it is stopped.
C25_PausedAfterExpiry ==
  [][/\ NaturalExpiry =>
          /\ ~isRunning'
          /\ scheduled' = {}
          /\ interval' = null
          /\ timeLeft' = durations'[mode']
          /\ mode' = (IF mode = "focus"
                        THEN (IF focusSessions' % 4 = 0 THEN "long"
                                                        ELSE "short")
                        ELSE "focus")
     /\ ~isRunning /\ isRunning' => op'.name \in {"start", "toggle"}
     /\ ~isRunning => op'.name # "tick"]_vars

\* The fourth focus session has expired and the long break waits, stopped.
C25_Witness ==
  /\ op.name = "tick"
  /\ mode = "long"
  /\ focusSessions = 4
  /\ timeLeft = durations["long"]
  /\ ~isRunning
  /\ scheduled = {}

\* --------------------------------------------------- app: countdown alone
\* What parseInt reads from a countdown field: nothing, a negative number,
\* seconds beyond 59.
CdFieldValues == {NaN, -1, 0, 1, 2, 75}

CdInputAny ==
  /\ \/ \E m \in {NaN, -1, 0} :
          AppBecomes(cdInputChange(App, m, cd.secInput),
                     [name |-> "inp-countdown"])
     \/ \E sec \in CdFieldValues :
          AppBecomes(cdInputChange(App, cd.minInput, sec),
                     [name |-> "inp-countdown"])
  /\ UNCHANGED focusExpiries

NextCountdown ==
  \/ CdStartClick
  \/ CdResetClick
  \/ CdInputAny
  \/ CdTick
  \/ AlarmStopClick
  \/ NotifSoundsChange

\* The countdown with whatever its fields hold, and the alarm it starts.
SpecCountdown == Init /\ [][NextCountdown]_vars

ModeTabClick ==
  /\ \E m \in Modes :
       AppBecomes(modeTabClick(App, m), [name |-> "mode-tab", mode |-> m])
  /\ UNCHANGED focusExpiries

\* 'change' on #inp-focus with a number of minutes in the field.
FocusFieldChange ==
  /\ \E v \in MinutesInputs :
       AppBecomes(focusInputChange(App, v),
                  [name |-> "inp-focus", value |-> v])
  /\ UNCHANGED focusExpiries

\* 'change' on #inp-break with a number of minutes in the field.
BreakFieldChange ==
  /\ \E mins \in MinutesInputs :
       AppBecomes(breakInputChange(App, mins),
                  [name |-> "inp-break", value |-> mins])
  /\ UNCHANGED focusExpiries

NextLabel ==
  \/ TimerStartClick
  \/ TimerResetClick
  \/ ModeTabClick
  \/ FocusFieldChange
  \/ BreakFieldChange
  \/ PomodoroTick

\* The handlers initTimer wires to the timer, and the timer's ticks.
SpecLabel == InitPage /\ [][NextLabel]_vars

\* C28: in every state reached through the start/pause button, the reset
\* button, the mode tabs, the duration fields, ticks and expiries, the
\* button reads Pause exactly when the timer is running and Start
\* otherwise.
C28_LabelMatches == label = (IF isRunning THEN "Pause" ELSE "Start")

\* C29: at most one alarm interval is scheduled and at most one alarm
\* audio context is open in every state, also when a second timer ends
\* before Stop is pressed, and right after stopAlarm none is left.
C29_OneAlarm ==
  /\ Cardinality(alarm.intervals) <= 1
  /\ Cardinality(alarm.contexts) <= 1
  /\ op.name = "btn-alarm-stop" =>
       alarm.intervals = {} /\ alarm.contexts = {}

\* Positions of the tasks with the given id.
WithId(items, id) == {i \in 1..Len(items) : items[i].id = id}

\* C30: the tasks of a list have pairwise different ids, also when two are
\* added within one millisecond, so toggle(id) flips the done flag of one
\* task and of no other, and remove(id) takes one task out and leaves the
\* others in place.
C30_UniqueIds ==
  [][/\ \A i, j \in 1..Len(tasks'.items) :
          i # j => tasks'.items[i].id # tasks'.items[j].id
     /\ op'.name = "task-toggle" /\ WithId(tasks.items, op'.id) # {} =>
          Cardinality({i \in 1..Len(tasks.items) :
                         tasks'.items[i] # tasks.items[i]}) = 1
     /\ op'.name = "task-remove" /\ WithId(tasks.items, op'.id) # {} =>
          Len(tasks'.items) = Len(tasks.items) - 1]_vars
====
